---- MODULE Spec2Model ----
(***************************************************************************)
(* Model of the photo upload / moderation service in src/app.py: the       *)
(* Photo table, the R2 bucket, the admin session flag and the request      *)
(* handlers that act on them.                                              *)
(***************************************************************************)
EXTENDS Integers, Sequences, FiniteSets, TLC

\* ------------------------------------------------------------------ bounds
MaxTime == 2          \* the clock datetime.utcnow() reads runs over 1..MaxTime
MaxId == 2            \* primary keys handed out are capped at MaxId
NumWorkers == 1       \* upload / delete requests in flight at once

\* --------------------------------------------------------------- constants
NULL == 0             \* a NULL approved_at column; timestamps are >= 1
NoField == "<none>"   \* None: a form field or a config variable that is absent
NoLength == -1        \* request.content_length is None

MAX_CONTENT_LENGTH == 16 * 1024 * 1024

Workers == 1..NumWorkers         \* requests that can be in the middle of a handler
Sessions == {"s1"}               \* browser sessions (signed cookies)
Passwords == {NoField, "secret", "wrong"}

\* ------------------------------------------------------------ text helpers
Upper == <<"A","B","C","D","E","F","G","H","I","J","K","L","M",
           "N","O","P","Q","R","S","T","U","V","W","X","Y","Z">>
LowerCase == <<"a","b","c","d","e","f","g","h","i","j","k","l","m",
           "n","o","p","q","r","s","t","u","v","w","x","y","z">>
Digits == <<"0","1","2","3","4","5","6","7","8","9">>

Range(s) == {s[i] : i \in DOMAIN s}

\* str.lower() on one character
LowerChar(c) ==
    IF \E i \in DOMAIN Upper : Upper[i] = c
    THEN LowerCase[CHOOSE i \in DOMAIN Upper : Upper[i] = c]
    ELSE c

\* str.lower()
Lower(s) == [i \in DOMAIN s |-> LowerChar(s[i])]

IsSpace(c) == c \in {" ", "\t", "\n"}

\* a caption taken as submitted, without .strip()
StripNothing(s) == s

\* str.strip(): leading and trailing whitespace removed
Strip(s) ==
    LET keep == {i \in DOMAIN s : ~IsSpace(s[i])}
    IN  IF keep = {} THEN <<>>
        ELSE LET lo == CHOOSE i \in keep : \A j \in keep : i <= j
                 hi == CHOOSE i \in keep : \A j \in keep : j <= i
             IN  SubSeq(s, lo, hi)

\* str.strip("._"): leading and trailing dots and underscores removed
StripDotUnderscore(s) ==
    LET keep == {i \in DOMAIN s : s[i] \notin {".", "_"}}
    IN  IF keep = {} THEN <<>>
        ELSE LET lo == CHOOSE i \in keep : \A j \in keep : i <= j
                 hi == CHOOSE i \in keep : \A j \in keep : j <= i
             IN  SubSeq(s, lo, hi)

\* filename.rsplit('.', 1)[1]: the text after the last dot
Extension(filename) ==
    LET dots == {i \in DOMAIN filename : filename[i] = "."}
        last == CHOOSE i \in dots : \A j \in dots : j <= i
    IN  SubSeq(filename, last + 1, Len(filename))

ALLOWED_EXTENSIONS ==
    { <<"p","n","g">>, <<"j","p","g">>, <<"j","p","e","g">>,
      <<"g","i","f">>, <<"h","e","i","c">> }

\* an extension check that only looks for a dot
AllowedFileAnyExtension(filename) == "." \in Range(filename)

allowed_file(filename) ==
    "." \in Range(filename) /\ Lower(Extension(filename)) \in ALLOWED_EXTENSIONS

\* the characters werkzeug's secure_filename keeps: [A-Za-z0-9_.-]
SafeChar(c) ==
    c \in Range(Upper) \cup Range(LowerCase) \cup Range(Digits) \cup {"_", ".", "-"}

\* "_".join(s.split()) once the path separators have become spaces: every
\* run of blanks between two words becomes one "_", blanks at the ends vanish
RECURSIVE JoinWords(_, _, _)
JoinWords(s, started, pending) ==
    IF s = <<>> THEN <<>>
    ELSE IF IsSpace(Head(s)) \/ Head(s) = "/"
         THEN JoinWords(Tail(s), started, started)
         ELSE (IF pending THEN <<"_">> ELSE <<>>) \o <<Head(s)>>
              \o JoinWords(Tail(s), TRUE, FALSE)

\* werkzeug.utils.secure_filename
secure_filename(s) ==
    StripDotUnderscore(SelectSeq(JoinWords(s, FALSE, FALSE), SafeChar))

\* str(datetime.utcnow().timestamp()) for the clock reading t
TimestampText(t) == <<Digits[t + 1]>>

\* the storage key upload() derives from the clock and the submitted name
GenerateFilename(t, name) == secure_filename(TimestampText(t) \o <<"_">> \o name)

\* ------------------------------------------------------------ input values
Filenames ==
    { <<>>,
      <<"c","a","t">>,
      <<"c","a","t",".","e","x","e">>,
      <<"c","a","t",".","E","X","E">>,
      <<"c","a","t",".","J","P","G">>,
      <<"c","a","t","!",".","J","P","G">> }

Hi == <<" ","H","i","!"," ">>
CatExe == <<"c","a","t",".","e","x","e">>
CatJpg == <<"c","a","t",".","J","P","G">>

CatBang == <<"c","a","t","!",".","J","P","G">>

UploadRequest(clen, hasPhoto, caption, filename) ==
    [clen |-> clen, hasPhoto |-> hasPhoto, caption |-> caption, filename |-> filename]

\* the upload requests tried: a body over the limit with the other fields
\* good and with them bad, a request without the photo part, the blank
\* captions with good, bad and empty file names, every file name with a good
\* caption, and the good request with each body size that passes
UploadRequests ==
    { UploadRequest(MAX_CONTENT_LENGTH + 1, TRUE, Hi, CatJpg),
      UploadRequest(MAX_CONTENT_LENGTH + 1, FALSE, <<>>, CatExe),
      UploadRequest(NoLength, FALSE, Hi, CatJpg),
      UploadRequest(NoLength, TRUE, <<>>, CatJpg),
      UploadRequest(NoLength, TRUE, <<" ">>, CatJpg),
      UploadRequest(NoLength, TRUE, <<>>, CatExe),
      UploadRequest(NoLength, TRUE, <<" ">>, <<>>),
      UploadRequest(0, TRUE, Hi, CatJpg),
      UploadRequest(MAX_CONTENT_LENGTH, TRUE, Hi, CatJpg) }
    \cup {UploadRequest(NoLength, TRUE, Hi, f) : f \in Filenames}

StatusArgs == {NoField, "pending", "approved", "rejected"}

PhotoIds == 1..MaxId

\* what requests.post does when the notification calls it
Transports == {"ok", "http_error", "exception"}

\* app.config is read when a handler runs; the table and the bucket outlive
\* the process, so a request can meet any configuration of the process it
\* reaches: ADMIN_PASSWORD set or not, the R2 credentials and the Pushover
\* keys present or not
AdminPasswordConfig == {NoField, "secret"}

\* ------------------------------------------------------------------- state
VARIABLES
    now,        \* the value datetime.utcnow() returns
    session,    \* session[s]: the admin_authenticated flag of browser session s
    photos,     \* the Photo table: id -> row
    nextId,     \* the sequence behind Photo.id
    blobs,      \* the R2 bucket: the keys that hold an object
    req,        \* the upload / delete request each worker is in the middle of
    response    \* the response the step just taken sent, if it sent one, and
                \* what its request printed about the calls it survived

vars == <<now, session, photos, nextId, blobs, req, response>>

Idle == [pc |-> "idle", key |-> <<>>, caption |-> <<>>, pid |-> 0, log |-> ""]

\* jsonify(...) / render_template(...) / redirect(...) with its status code
Response(code, body) == [code |-> code, body |-> body, list |-> <<>>, log |-> ""]

\* a step inside a handler, which sends nothing yet
NoResponse == Response(0, "")

Init ==
    /\ now = 1
    /\ session = [s \in Sessions |-> FALSE]
    /\ photos = [i \in {} |-> 0]
    /\ nextId = 1
    /\ blobs = {}
    /\ req = [w \in Workers |-> Idle]
    /\ response = NoResponse

\* ------------------------------------------------------------------- table
Remove(f, x) == [y \in DOMAIN f \ {x} |-> f[y]]
Insert(f, x, v) == [y \in DOMAIN f \cup {x} |-> IF y = x THEN v ELSE f[y]]

\* a Photo whose status column defaults to 'approved'
PhotoApprovedByDefault(filename, caption, t) ==
    [filename |-> filename, caption |-> caption, status |-> "approved",
     uploaded_at |-> t, approved_at |-> NULL]

\* Photo(filename=..., caption=...): status defaults to 'pending', uploaded_at
\* to the clock, approved_at to NULL
Photo(filename, caption, t) ==
    [filename |-> filename, caption |-> caption, status |-> "pending",
     uploaded_at |-> t, approved_at |-> NULL]

\* get_r2_client(): raises ValueError unless the credentials are configured
get_r2_client(r2Configured) == r2Configured

\* ------------------------------------------------------------ notification
\* the notification without its try / except: a transport failure leaves it
SendPushoverNotificationUnguarded(pushoverConfigured, transport) ==
    IF ~pushoverConfigured
    THEN [raised |-> FALSE, log |-> "Pushover not configured"]
    ELSE IF transport = "exception"
         THEN [raised |-> TRUE, log |-> ""]
         ELSE IF transport = "ok"
              THEN [raised |-> FALSE, log |-> "Pushover notification sent"]
              ELSE [raised |-> FALSE, log |-> "Pushover notification failed"]

\* send_pushover_notification(caption): what the call logged and whether an
\* exception left it
send_pushover_notification(pushoverConfigured, transport) ==
    IF ~pushoverConfigured
    THEN [raised |-> FALSE, log |-> "Pushover not configured"]
    ELSE IF transport = "exception"
         THEN [raised |-> FALSE, log |-> "Failed to send Pushover notification"]
         ELSE IF transport = "ok"
              THEN [raised |-> FALSE, log |-> "Pushover notification sent"]
              ELSE [raised |-> FALSE, log |-> "Pushover notification failed"]

\* ------------------------------------------------------------------ upload
\* the checks with a size test that also refuses a body of exactly the limit
UploadValidationInclusiveLimit(clen, hasPhoto, caption, fname) ==
    IF clen # NoLength /\ clen # 0 /\ clen >= MAX_CONTENT_LENGTH
    THEN Response(413, "File too large. Maximum size is 16MB.")
    ELSE IF ~hasPhoto
    THEN Response(400, "No photo uploaded")
    ELSE IF Strip(caption) = <<>>
    THEN Response(400, "Caption is required")
    ELSE IF fname = <<>>
    THEN Response(400, "No photo selected")
    ELSE IF ~allowed_file(fname)
    THEN Response(400, "Invalid file type")
    ELSE NoResponse

\* POST /upload up to the key generation: the checks on the request, in the
\* order the handler makes them
UploadValidation(clen, hasPhoto, caption, fname) ==
    IF clen # NoLength /\ clen # 0 /\ clen > MAX_CONTENT_LENGTH
    THEN Response(413, "File too large. Maximum size is 16MB.")
    ELSE IF ~hasPhoto
    THEN Response(400, "No photo uploaded")
    ELSE IF Strip(caption) = <<>>
    THEN Response(400, "Caption is required")
    ELSE IF fname = <<>>
    THEN Response(400, "No photo selected")
    ELSE IF ~allowed_file(fname)
    THEN Response(400, "Invalid file type")
    ELSE NoResponse

UploadStart(w, clen, hasPhoto, caption, fname) ==
    /\ req[w].pc = "idle"
    /\ response' = UploadValidation(clen, hasPhoto, caption, fname)
    /\ req' = IF response' = NoResponse
              THEN [req EXCEPT ![w] = [pc |-> "put",
                                       key |-> GenerateFilename(now, fname),
                                       caption |-> Strip(caption), pid |-> 0,
                                       log |-> ""]]
              ELSE req
    /\ UNCHANGED <<now, session, photos, nextId, blobs>>

\* an upload that goes on to the record although the blob write failed
UploadPutIgnoresFailure(w, r2Configured, ok) ==
    /\ req[w].pc = "put"
    /\ blobs' = IF r2Configured /\ ok THEN blobs \cup {req[w].key} ELSE blobs
    /\ req' = [req EXCEPT ![w].pc = "commit"]
    /\ response' = NoResponse
    /\ UNCHANGED <<now, session, photos, nextId>>

\* r2_client = get_r2_client(); r2_client.upload_fileobj(photo, bucket, filename)
UploadPut(w, r2Configured, ok) ==
    /\ req[w].pc = "put"
    /\ IF ~get_r2_client(r2Configured)
       THEN /\ response' = Response(500, "Server configuration error. Please contact admin.")
            /\ req' = [req EXCEPT ![w] = Idle]
            /\ UNCHANGED blobs
       ELSE IF ok
       THEN /\ blobs' = blobs \cup {req[w].key}
            /\ req' = [req EXCEPT ![w].pc = "commit"]
            /\ response' = NoResponse
       ELSE /\ response' = Response(500, "Upload failed")
            /\ req' = [req EXCEPT ![w] = Idle]
            /\ UNCHANGED blobs
    /\ UNCHANGED <<now, session, photos, nextId>>

\* db.session.add(new_photo); db.session.commit(); send_pushover_notification;
\* an exception anywhere in this block enters the cleanup handler
UploadCommit(w, dbOk, pushoverConfigured, transport) ==
    /\ req[w].pc = "commit"
    /\ IF ~dbOk
       THEN /\ req' = [req EXCEPT ![w].pc = "cleanup"]
            /\ response' = NoResponse
            /\ UNCHANGED <<photos, nextId>>
       ELSE /\ nextId <= MaxId
            /\ photos' = Insert(photos, nextId, Photo(req[w].key, req[w].caption, now))
            /\ nextId' = nextId + 1
            /\ LET n == send_pushover_notification(pushoverConfigured, transport)
               IN  IF n.raised
                   THEN /\ req' = [req EXCEPT ![w].pc = "cleanup", ![w].pid = nextId]
                        /\ response' = NoResponse
                   ELSE /\ req' = [req EXCEPT ![w] = Idle]
                        /\ response' = [Response(200, "Photo uploaded!")
                                          EXCEPT !.log = n.log]
    /\ UNCHANGED <<now, session, blobs>>

\* a cleanup handler that answers without deleting the blob
UploadCleanupSkipsDelete(w, ok) ==
    /\ req[w].pc = "cleanup"
    /\ blobs' = blobs
    /\ response' = [Response(500, "Database error. Please try again.")
                      EXCEPT !.log = "Failed to cleanup R2 file"]
    /\ req' = [req EXCEPT ![w] = Idle]
    /\ UNCHANGED <<now, session, photos, nextId>>

\* except Exception as db_error: r2_client.delete_object(Key=filename), whose
\* own failure is only printed; then the 500 response
UploadCleanup(w, ok) ==
    /\ req[w].pc = "cleanup"
    /\ blobs' = IF ok THEN blobs \ {req[w].key} ELSE blobs
    /\ response' = [Response(500, "Database error. Please try again.")
                      EXCEPT !.log = IF ok THEN "Cleaned up orphaned file from R2"
                                     ELSE "Failed to cleanup R2 file"]
    /\ req' = [req EXCEPT ![w] = Idle]
    /\ UNCHANGED <<now, session, photos, nextId>>

\* ----------------------------------------------------------- admin session
\* a route without the decorator
AdminRequiredMissing(s) == TRUE

\* the admin_required decorator lets the request through
admin_required(s) == session[s]

check_admin_password(password, configured) == password = configured

\* POST /admin
Login(s, password, configured) ==
    /\ IF check_admin_password(password, configured)
       THEN /\ session' = [session EXCEPT ![s] = TRUE]
            /\ response' = Response(302, "admin_dashboard")
       ELSE /\ session' = session
            /\ response' = Response(200, "Invalid password")
    /\ UNCHANGED <<now, photos, nextId, blobs, req>>

\* GET /admin
AdminPage(s) ==
    /\ response' = IF session[s] THEN Response(302, "admin_dashboard")
                   ELSE Response(200, "admin_login.html")
    /\ UNCHANGED <<now, session, photos, nextId, blobs, req>>

\* GET /admin/dashboard
Dashboard(s) ==
    /\ response' = IF admin_required(s) THEN Response(200, "admin.html")
                   ELSE Response(401, "Unauthorized")
    /\ UNCHANGED <<now, session, photos, nextId, blobs, req>>

\* POST /admin/logout
Logout(s) ==
    /\ session' = [session EXCEPT ![s] = FALSE]
    /\ response' = Response(302, "admin")
    /\ UNCHANGED <<now, photos, nextId, blobs, req>>

\* -------------------------------------------------------------- moderation
\* the assignments each handler makes to the row it loaded

\* an approve that also stamps uploaded_at
ApprovedRowTouchesUploadedAt(p, t) ==
    [p EXCEPT !.status = "approved", !.approved_at = t, !.uploaded_at = t]

ApprovedRow(p, t) == [p EXCEPT !.status = "approved", !.approved_at = t]
RejectedRow(p) == [p EXCEPT !.status = "rejected"]
UnapprovedRow(p) == [p EXCEPT !.status = "pending", !.approved_at = NULL]

\* a reset that leaves approved_at as it was
PendingRowKeepsApprovedAt(p) == [p EXCEPT !.status = "pending"]

PendingRow(p) == [p EXCEPT !.status = "pending", !.approved_at = NULL]

\* the status handlers with .get() in place of .get_or_404(): a missing id is
\* answered like a found one
ModerateIgnoresMissing(s, id, row) ==
    /\ IF ~session[s]
       THEN /\ response' = Response(401, "Unauthorized")
            /\ UNCHANGED photos
       ELSE /\ photos' = IF id \in DOMAIN photos
                         THEN [photos EXCEPT ![id] = row] ELSE photos
            /\ response' = Response(200, "success")
    /\ UNCHANGED <<now, session, nextId, blobs, req>>

\* what the four status handlers share: the decorator, get_or_404, the
\* assignments (row), the commit
Moderate(s, id, row) ==
    /\ IF ~admin_required(s)
       THEN /\ response' = Response(401, "Unauthorized")
            /\ UNCHANGED photos
       ELSE IF id \notin DOMAIN photos
       THEN /\ response' = Response(404, "Not Found")
            /\ UNCHANGED photos
       ELSE /\ photos' = [photos EXCEPT ![id] = row]
            /\ response' = Response(200, "success")
    /\ UNCHANGED <<now, session, nextId, blobs, req>>

\* the row get_or_404 loaded (any row when it raised: the handler is over)
Row(id) == IF id \in DOMAIN photos THEN photos[id] ELSE Photo(<<>>, <<>>, NULL)

approve_photo(s, id) == Moderate(s, id, ApprovedRow(Row(id), now))
reject_photo(s, id) == Moderate(s, id, RejectedRow(Row(id)))
unapprove_photo(s, id) == Moderate(s, id, UnapprovedRow(Row(id)))
to_pending(s, id) == Moderate(s, id, PendingRow(Row(id)))

\* delete_photo without the try / except around the blob delete: a failed
\* delete ends the request with a 500 and the row stays
DeleteBlobAbortsOnFailure(w, s, id, r2Configured, ok) ==
    /\ req[w].pc = "idle"
    /\ IF ~session[s]
       THEN /\ response' = Response(401, "Unauthorized")
            /\ UNCHANGED <<blobs, req>>
       ELSE IF id \notin DOMAIN photos
       THEN /\ response' = Response(404, "Not Found")
            /\ UNCHANGED <<blobs, req>>
       ELSE IF ~(r2Configured /\ ok)
       THEN /\ response' = Response(500, "Internal Server Error")
            /\ UNCHANGED <<blobs, req>>
       ELSE /\ blobs' = blobs \ {photos[id].filename}
            /\ req' = [req EXCEPT ![w] =
                         [Idle EXCEPT !.pc = "delete", !.pid = id,
                                      !.key = photos[id].filename]]
            /\ response' = NoResponse
    /\ UNCHANGED <<now, session, photos, nextId>>

\* delete_photo up to the database delete: the decorator, get_or_404 and the
\* attempt to delete the blob, whose failure is only printed
DeleteBlob(w, s, id, r2Configured, ok) ==
    /\ req[w].pc = "idle"
    /\ IF ~admin_required(s)
       THEN /\ response' = Response(401, "Unauthorized")
            /\ UNCHANGED <<blobs, req>>
       ELSE IF id \notin DOMAIN photos
       THEN /\ response' = Response(404, "Not Found")
            /\ UNCHANGED <<blobs, req>>
       ELSE /\ blobs' = IF get_r2_client(r2Configured) /\ ok
                        THEN blobs \ {photos[id].filename}
                        ELSE blobs
            /\ req' = [req EXCEPT ![w] =
                         [Idle EXCEPT !.pc = "delete", !.pid = id,
                                      !.key = photos[id].filename,
                                      !.log = IF get_r2_client(r2Configured) /\ ok
                                              THEN "" ELSE "Error deleting from R2"]]
            /\ response' = NoResponse
    /\ UNCHANGED <<now, session, photos, nextId>>

\* db.session.delete(photo); db.session.commit()
DeleteRecord(w) ==
    /\ req[w].pc = "delete"
    /\ photos' = Remove(photos, req[w].pid)
    /\ response' = [Response(200, "success") EXCEPT !.log = req[w].log]
    /\ req' = [req EXCEPT ![w] = Idle]
    /\ UNCHANGED <<now, session, nextId, blobs>>

\* ------------------------------------------------------------------- query
Orderings(S) ==
    {q \in [1..Cardinality(S) -> S] : \A i, j \in DOMAIN q : i # j => q[i] # q[j]}

\* ORDER BY approved_at ASC
ComesBeforeAscending(p, q) ==
    \/ p.approved_at = NULL \/ q.approved_at = NULL
    \/ p.approved_at <= q.approved_at

\* ORDER BY approved_at DESC: a row with a later approved_at comes first;
\* rows with equal values, and rows with NULL (first in PostgreSQL, last in
\* SQLite), come in an order the database chooses
ComesBefore(p, q) ==
    \/ p.approved_at = NULL \/ q.approved_at = NULL
    \/ p.approved_at >= q.approved_at

\* Photo.query.filter_by(status=status).order_by(Photo.approved_at.desc()).all()
QueryByStatus(status) ==
    LET hits == {id \in DOMAIN photos : photos[id].status = status}
    IN  {q \in Orderings(hits) :
            \A i, j \in DOMAIN q : i < j => ComesBefore(photos[q[i]], photos[q[j]])}

\* GET /api/photos
get_photos(arg) ==
    /\ \E q \in QueryByStatus(IF arg = NoField THEN "approved" ELSE arg) :
         response' = [Response(200, "photos") EXCEPT !.list = q]
    /\ UNCHANGED <<now, session, photos, nextId, blobs, req>>

\* ------------------------------------------------------------------- clock
Tick ==
    /\ now < MaxTime
    /\ now' = now + 1
    /\ response' = NoResponse
    /\ UNCHANGED <<session, photos, nextId, blobs, req>>

\* ----------------------------------------------------------- specification
Next ==
    \/ \E w \in Workers, r \in UploadRequests :
            UploadStart(w, r.clen, r.hasPhoto, r.caption, r.filename)
    \/ \E w \in Workers, r2Configured \in BOOLEAN, ok \in BOOLEAN :
            UploadPut(w, r2Configured, ok)
    \/ \E w \in Workers, dbOk \in BOOLEAN, pushoverConfigured \in BOOLEAN,
          transport \in Transports :
            UploadCommit(w, dbOk, pushoverConfigured, transport)
    \/ \E w \in Workers, ok \in BOOLEAN : UploadCleanup(w, ok)
    \/ \E s \in Sessions, password \in Passwords, configured \in AdminPasswordConfig :
            Login(s, password, configured)
    \/ \E s \in Sessions : AdminPage(s)
    \/ \E s \in Sessions : Dashboard(s)
    \/ \E s \in Sessions : Logout(s)
    \/ \E s \in Sessions, id \in PhotoIds : approve_photo(s, id)
    \/ \E s \in Sessions, id \in PhotoIds : reject_photo(s, id)
    \/ \E s \in Sessions, id \in PhotoIds : unapprove_photo(s, id)
    \/ \E s \in Sessions, id \in PhotoIds : to_pending(s, id)
    \/ \E w \in Workers, s \in Sessions, id \in PhotoIds,
          r2Configured \in BOOLEAN, ok \in BOOLEAN :
            DeleteBlob(w, s, id, r2Configured, ok)
    \/ \E w \in Workers : DeleteRecord(w)
    \/ \E arg \in StatusArgs : get_photos(arg)
    \/ Tick

Spec == Init /\ [][Next]_vars

\* ------------------------------------------------------------------ claims
Authorized(s, id) == session[s] /\ id \in DOMAIN photos

\* C1: in every reachable state every photo has status 'approved' if and only
\* if its approved_at is not null.
C1_ApprovedIffApprovedAt ==
    \A id \in DOMAIN photos :
        (photos[id].status = "approved") <=> (photos[id].approved_at # NULL)

\* C2: for an authenticated admin, approve(id) on a pending photo leaves it
\* approved with a non-null approved_at, and reject(id) on the photo so
\* approved leaves it rejected with approved_at null.
C2_ApproveThenReject ==
    [][\A s \in Sessions, id \in PhotoIds :
          /\ (Authorized(s, id) /\ photos[id].status = "pending"
                /\ approve_photo(s, id))
             => /\ photos'[id].status = "approved"
                /\ photos'[id].approved_at # NULL
          /\ (Authorized(s, id) /\ photos[id].status = "approved"
                /\ photos[id].approved_at # NULL /\ reject_photo(s, id))
             => /\ photos'[id].status = "rejected"
                /\ photos'[id].approved_at = NULL]_vars

DatabaseError ==
    {[Response(500, "Database error. Please try again.") EXCEPT !.log = l] :
        l \in {"Cleaned up orphaned file from R2", "Failed to cleanup R2 file"}}

\* C3 as stated: when the blob write succeeded and the record creation failed,
\* the compensating step leaves no blob under the upload's key and no record
\* of the upload, and answers with the record-store error.
C3_BlobAlwaysDeleted ==
    [][\A w \in Workers :
          /\ UploadCommit(w, FALSE, FALSE, "ok") => photos' = photos
          /\ \A ok \in BOOLEAN :
                UploadCleanup(w, ok)
                => /\ req[w].key \notin blobs'
                   /\ photos' = photos
                   /\ response' \in DatabaseError]_vars

\* C3 amended: when the blob write succeeded and the record creation failed,
\* the upload creates no record and answers with the record-store error; the
\* blob it wrote is gone when the compensating delete succeeds, and is still
\* in the bucket when that delete fails, which is only printed.
C3_BlobDeletedUnlessCleanupFails ==
    [][\A w \in Workers :
          /\ UploadCommit(w, FALSE, FALSE, "ok") => photos' = photos
          /\ \A ok \in BOOLEAN :
                UploadCleanup(w, ok)
                => /\ ok => blobs' = blobs \ {req[w].key}
                   /\ ~ok => blobs' = blobs
                   /\ photos' = photos
                   /\ response' \in DatabaseError]_vars

\* a failed record creation whose blob was cleaned up
C3_Witness ==
    /\ response.code = 500
    /\ response.log = "Cleaned up orphaned file from R2"
    /\ blobs = {}
    /\ DOMAIN photos = {}

UploadedRow(p, key) ==
    p.filename = key /\ p.status = "pending" /\ p.approved_at = NULL

\* C4 as stated: an upload whose caption and extension pass and whose blob
\* write and record write succeed adds exactly one blob, under its key, and
\* exactly one record, pending with approved_at null and that key as its
\* filename; nothing else is added or removed.
C4_UploadAddsOneRecordOneBlob ==
    [][\A w \in Workers :
          /\ UploadPut(w, TRUE, TRUE)
             => /\ req[w].key \notin blobs
                /\ blobs' = blobs \cup {req[w].key}
                /\ photos' = photos
          /\ \A p \in BOOLEAN, t \in Transports :
                UploadCommit(w, TRUE, p, t)
                => /\ \E id \in DOMAIN photos' \ DOMAIN photos :
                         /\ DOMAIN photos' = DOMAIN photos \cup {id}
                         /\ UploadedRow(photos'[id], req[w].key)
                   /\ \A id \in DOMAIN photos : photos'[id] = photos[id]
                   /\ req[w].key \in blobs
                   /\ blobs' = blobs]_vars

Blank(caption) == \A i \in DOMAIN caption : caption[i] \in {" ", "\t", "\n"}

\* the step answered with a validation error and left the bucket, the table
\* and the requests in flight as they were
Refused ==
    /\ response'.code \in {400, 413} /\ response'.list = <<>> /\ response'.log = ""
    /\ blobs' = blobs /\ photos' = photos /\ req' = req

BlankCaptionRequests == {r \in UploadRequests : Blank(r.caption)}

\* C5: an upload whose caption is empty or only whitespace is answered with
\* a validation error, writes no blob, creates no record and starts no
\* upload: a step that is anything else handles no such request.
C5_BlankCaptionRejected ==
    [][~Refused
       => \A w \in Workers, r \in BlankCaptionRequests :
             ~UploadStart(w, r.clen, r.hasPhoto, r.caption, r.filename)]_vars

\* an upload refused for its caption
C5_Witness ==
    response = Response(400, "Caption is required")

\* the file name ends in a dot followed by an allowed extension, in any case
EndsInAllowedExtension(fname) ==
    \E e \in ALLOWED_EXTENSIONS :
        /\ Len(fname) > Len(e)
        /\ fname[Len(fname) - Len(e)] = "."
        /\ \A i \in 1..Len(e) :
              \/ fname[Len(fname) - Len(e) + i] = e[i]
              \/ \E k \in DOMAIN Upper :
                    /\ fname[Len(fname) - Len(e) + i] = Upper[k]
                    /\ LowerCase[k] = e[i]

DisallowedExtensionRequests ==
    {r \in UploadRequests : ~EndsInAllowedExtension(r.filename)}

\* C6: an upload whose file name has no extension, or one outside png, jpg,
\* jpeg, gif, heic in any case, is answered with a validation error and
\* touches neither the bucket nor the table, nor starts an upload that
\* would: a step that is anything else handles no such request.
C6_DisallowedExtensionRejected ==
    [][~Refused
       => \A w \in Workers, r \in DisallowedExtensionRequests :
             ~UploadStart(w, r.clen, r.hasPhoto, r.caption, r.filename)]_vars

\* an upload refused for its extension
C6_Witness ==
    response = Response(400, "Invalid file type")

\* C7: for an authenticated admin and an existing photo, delete goes on to
\* the row whatever the blob delete did (succeeded, failed, or had no
\* credentials), and its last step leaves the table without that id and
\* every other row as it was.
C7_DeleteRemovesRecord ==
    [][\A w \in Workers :
          /\ \A s \in Sessions, id \in PhotoIds, r2 \in BOOLEAN, ok \in BOOLEAN :
                (Authorized(s, id) /\ DeleteBlob(w, s, id, r2, ok))
                => /\ req'[w].pc = "delete" /\ req'[w].pid = id
                   /\ photos' = photos
          /\ DeleteRecord(w)
             => /\ req[w].pid \notin DOMAIN photos'
                /\ \A id \in DOMAIN photos \ {req[w].pid} :
                      id \in DOMAIN photos' /\ photos'[id] = photos[id]
                /\ response'.code = 200
                /\ req'[w].pc = "idle"]_vars

\* a delete that answered success after its blob delete had failed: the row
\* is gone, the blob is still in the bucket
C7_Witness ==
    /\ response = [Response(200, "success") EXCEPT !.log = "Error deleting from R2"]
    /\ DOMAIN photos = {}
    /\ blobs # {}

\* C8: approve, reject, unapprove, to-pending and delete on a session that is
\* not authenticated answer 401 Unauthorized and leave the table and the
\* bucket as they were; on an authenticated session and an existing photo
\* they are carried out.
C8_AdminGate ==
    [][\A s \in Sessions, id \in PhotoIds :
          /\ (~session[s] /\ (\/ approve_photo(s, id) \/ reject_photo(s, id)
                              \/ unapprove_photo(s, id) \/ to_pending(s, id)
                              \/ \E w \in Workers, r2 \in BOOLEAN, ok \in BOOLEAN :
                                    DeleteBlob(w, s, id, r2, ok)))
             => /\ response' = Response(401, "Unauthorized")
                /\ photos' = photos /\ blobs' = blobs /\ req' = req
          /\ (Authorized(s, id) /\ approve_photo(s, id))
             => /\ response' = Response(200, "success")
                /\ photos'[id].status = "approved" /\ photos'[id].approved_at = now
          /\ (Authorized(s, id) /\ reject_photo(s, id))
             => /\ response' = Response(200, "success")
                /\ photos'[id].status = "rejected"
          /\ (Authorized(s, id) /\ (unapprove_photo(s, id) \/ to_pending(s, id)))
             => /\ response' = Response(200, "success")
                /\ photos'[id].status = "pending" /\ photos'[id].approved_at = NULL
          /\ \A w \in Workers, r2 \in BOOLEAN, ok \in BOOLEAN :
                (Authorized(s, id) /\ DeleteBlob(w, s, id, r2, ok))
                => req'[w].pc = "delete" /\ req'[w].pid = id]_vars

\* a moderation request refused on a session that has not logged in, with a
\* photo in the table
C8_Witness ==
    /\ response = Response(401, "Unauthorized")
    /\ \A s \in Sessions : ~session[s]
    /\ DOMAIN photos # {}

\* C9: the list query without a status argument returns every approved
\* photo once, no other photo, the later approved_at first.
C9_DefaultListApprovedDescending ==
    [][get_photos(NoField)
       => LET l == response'.list
          IN  /\ Range(l) = {id \in DOMAIN photos : photos[id].status = "approved"}
              /\ \A i, j \in DOMAIN l : i # j => l[i] # l[j]
              /\ \A i, j \in DOMAIN l :
                    i < j => photos[l[i]].approved_at >= photos[l[j]].approved_at]_vars

\* a list of two photos approved at different times
C9_Witness ==
    /\ response.body = "photos"
    /\ Len(response.list) = 2
    /\ photos[response.list[1]].status = "approved"
    /\ photos[response.list[1]].approved_at > photos[response.list[2]].approved_at
    /\ photos[response.list[2]].approved_at # NULL

\* C10: when the record is committed and the notification then fails (the
\* transport raises, or Pushover answers with an error), the upload still
\* answers success, the record is in the table, the bucket is untouched and
\* no cleanup follows.
C10_NotificationFailureHarmless ==
    [][\A w \in Workers, t \in {"exception", "http_error"} :
          UploadCommit(w, TRUE, TRUE, t)
          => /\ response'.code = 200 /\ response'.body = "Photo uploaded!"
             /\ nextId \in DOMAIN photos'
             /\ UploadedRow(photos'[nextId], req[w].key)
             /\ blobs' = blobs
             /\ req'[w].pc = "idle"]_vars

\* an upload that answered success although the transport raised
C10_Witness ==
    /\ response.code = 200 /\ response.body = "Photo uploaded!"
    /\ response.log = "Failed to send Pushover notification"
    /\ \E id \in DOMAIN photos : photos[id].filename \in blobs

UploadError ==
    { Response(500, "Server configuration error. Please contact admin."),
      Response(500, "Upload failed") }

\* C11: a record is only written by an upload that has written its blob
\* before (only a successful blob write moves an upload on to the record
\* write, and a row is only added by an upload that got there), and an upload
\* whose blob write fails, through the store or through missing credentials,
\* ends with an error, adds no record and no blob.
C11_BlobWritePrecedesRecord ==
    [][/\ \A w \in Workers :
             (req[w].pc # "commit" /\ req'[w].pc = "commit")
             => /\ req[w].pc = "put"
                /\ blobs' = blobs \cup {req[w].key}
                /\ photos' = photos
       /\ (DOMAIN photos' \ DOMAIN photos # {})
          => \E w \in Workers : req[w].pc = "commit" /\ req'[w].pc # "commit"
       /\ \A w \in Workers, r2 \in BOOLEAN, ok \in BOOLEAN :
             (~(r2 /\ ok) /\ UploadPut(w, r2, ok))
             => /\ response' \in UploadError
                /\ photos' = photos /\ blobs' = blobs
                /\ req'[w].pc = "idle"]_vars

\* an upload that ended on missing credentials, with nothing stored
C11_Witness ==
    /\ response = Response(500, "Server configuration error. Please contact admin.")
    /\ DOMAIN photos = {} /\ blobs = {}
    /\ \A w \in Workers : req[w].pc = "idle"

\* C12: whenever no upload or delete request is in flight, the file names of
\* the photo records are exactly the keys that hold a blob in the bucket.
C12_RecordIffBlob ==
    (\A w \in Workers : req[w].pc = "idle")
    => {photos[id].filename : id \in DOMAIN photos} = blobs

Named(key, rows) == {id \in DOMAIN rows : rows[id].filename = key}

\* C13: no two photo records share a filename, and no upload writes its blob
\* under a key a record already names, nor does the cleanup of an upload or
\* the delete of a photo remove a blob that another record names.
C13_KeysNeverShared ==
    [][/\ \A i, j \in DOMAIN photos' :
             i # j => photos'[i].filename # photos'[j].filename
       /\ \A w \in Workers :
             /\ UploadPut(w, TRUE, TRUE) => Named(req[w].key, photos) = {}
             /\ UploadCleanup(w, TRUE) => Named(req[w].key, photos) = {}
             /\ \A s \in Sessions, id \in PhotoIds :
                   (Authorized(s, id) /\ DeleteBlob(w, s, id, TRUE, TRUE))
                   => Named(photos[id].filename, photos) = {id}]_vars

\* the step is a request of session s to one of the admin-gated routes
GatedRequest(s) ==
    \/ Dashboard(s)
    \/ \E id \in PhotoIds :
          \/ approve_photo(s, id) \/ reject_photo(s, id)
          \/ unapprove_photo(s, id) \/ to_pending(s, id)
          \/ \E w \in Workers, r2 \in BOOLEAN, ok \in BOOLEAN :
                DeleteBlob(w, s, id, r2, ok)

\* C14: a logout leaves the session without its credential; a session
\* without it gets 401 Unauthorized from the dashboard, approve, reject,
\* unapprove, to-pending and delete; and the login that follows a logout
\* gives the credential back only when it carries the configured secret.
C14_LogoutInvalidatesSession ==
    [][\A s \in Sessions :
          /\ Logout(s) => ~session'[s]
          /\ (~session[s] /\ GatedRequest(s))
             => /\ response' = Response(401, "Unauthorized")
                /\ session' = session /\ photos' = photos /\ blobs' = blobs
          /\ \A p \in Passwords, c \in AdminPasswordConfig :
                (response = Response(302, "admin") /\ ~session[s]
                   /\ Login(s, p, c) /\ session'[s])
                => (p = c /\ c # NoField)]_vars

\* C15: for an authenticated admin and an existing photo, whatever its
\* status, to-pending and unapprove each leave the photo pending with
\* approved_at null, and a step is one of them exactly when it is the other:
\* from the same state they reach the same state.
C15_ResetEndpointsAgree ==
    [][\A s \in Sessions, id \in PhotoIds :
          Authorized(s, id)
          => /\ (unapprove_photo(s, id) \/ to_pending(s, id))
                => /\ photos'[id].status = "pending"
                   /\ photos'[id].approved_at = NULL
             /\ unapprove_photo(s, id) <=> to_pending(s, id)]_vars

\* a reset has just answered success: no photo was ever deleted, the last
\* request was a successful moderation and every photo is pending
C15_Witness ==
    /\ response = Response(200, "success")
    /\ now > 1
    /\ DOMAIN photos = 1..(nextId - 1) /\ nextId > 1
    /\ \A id \in DOMAIN photos :
          photos[id].status = "pending" /\ photos[id].approved_at = NULL

\* C16: for an authenticated admin, approve, reject, unapprove, to-pending
\* and delete on an id that has no record answer 404 Not Found, leave every
\* record as it was and make no call to the blob store (the bucket is
\* untouched and no delete request is left in flight).
C16_MissingIdNotFound ==
    [][\A s \in Sessions, id \in PhotoIds :
          (session[s] /\ id \notin DOMAIN photos
             /\ (\/ approve_photo(s, id) \/ reject_photo(s, id)
                 \/ unapprove_photo(s, id) \/ to_pending(s, id)
                 \/ \E w \in Workers, r2 \in BOOLEAN, ok \in BOOLEAN :
                       DeleteBlob(w, s, id, r2, ok)))
          => /\ response' = Response(404, "Not Found")
             /\ photos' = photos /\ blobs' = blobs /\ req' = req]_vars

\* an authenticated request for an id that is not in a table that has rows,
\* answered Not Found
C16_Witness ==
    /\ response = Response(404, "Not Found")
    /\ \E s \in Sessions : session[s]
    /\ DOMAIN photos # {} /\ blobs # {}

\* C17: the authenticated flag of a session is set only by a login whose
\* password is the configured admin secret: a login with a wrong password,
\* without the password field, or while no secret is configured leaves the
\* flag unset, and no other request sets it.
C17_OnlyCorrectPasswordAuthenticates ==
    [][\A s \in Sessions :
          /\ (~session[s] /\ session'[s])
             => \E p \in Passwords, c \in AdminPasswordConfig : Login(s, p, c)
          /\ \A p \in Passwords, c \in AdminPasswordConfig :
                (~session[s] /\ Login(s, p, c)
                   /\ (p # c \/ p = NoField \/ c = NoField))
                => ~session'[s]]_vars

IsApproved(rows, id) == id \in DOMAIN rows /\ rows[id].status = "approved"

\* C18: the default list returns only photos whose status is approved; a
\* photo gets that status only in an approve step of an authenticated
\* session on a record that exists (so never by its upload), and loses it,
\* or its record, in every reject, unapprove, to-pending and delete carried
\* out on it.
C18_FeedOnlyAfterApprove ==
    [][/\ get_photos(NoField)
          => \A i \in DOMAIN response'.list : IsApproved(photos, response'.list[i])
       /\ \A id \in PhotoIds :
             /\ (IsApproved(photos', id) /\ ~IsApproved(photos, id))
                => \E s \in Sessions : Authorized(s, id) /\ approve_photo(s, id)
             /\ \A s \in Sessions :
                   (Authorized(s, id)
                      /\ (\/ reject_photo(s, id) \/ unapprove_photo(s, id)
                          \/ to_pending(s, id)))
                   => ~IsApproved(photos', id)
       /\ \A w \in Workers :
             DeleteRecord(w) => ~IsApproved(photos', req[w].pid)
       /\ \A w \in Workers, p \in BOOLEAN, t \in Transports :
             UploadCommit(w, TRUE, p, t) => ~IsApproved(photos', nextId)]_vars

\* the feed answered with the one approved photo while a later upload is in
\* the table, pending, and not in the answer
C18_Witness ==
    /\ response.body = "photos"
    /\ Len(response.list) = 1
    /\ IsApproved(photos, response.list[1])
    /\ \E id \in DOMAIN photos :
          /\ id > response.list[1]
          /\ photos[id].status = "pending" /\ photos[id].approved_at = NULL

\* C19: approve, reject, unapprove and to-pending on a photo leave its id,
\* filename, caption and uploaded_at, every other record, the set of ids and
\* the bucket as they were: only status and approved_at of that row may
\* differ.
C19_ModerationFrame ==
    [][\A s \in Sessions, id \in PhotoIds :
          (Authorized(s, id)
             /\ (\/ approve_photo(s, id) \/ reject_photo(s, id)
                 \/ unapprove_photo(s, id) \/ to_pending(s, id)))
          => /\ DOMAIN photos' = DOMAIN photos
             /\ photos'[id].filename = photos[id].filename
             /\ photos'[id].caption = photos[id].caption
             /\ photos'[id].uploaded_at = photos[id].uploaded_at
             /\ \A other \in DOMAIN photos \ {id} : photos'[other] = photos[other]
             /\ blobs' = blobs /\ nextId' = nextId /\ req' = req]_vars

\* a photo approved after the clock moved on, next to a second photo: its
\* uploaded_at is still the earlier reading and its blob is in the bucket
C19_Witness ==
    /\ response = Response(200, "success")
    /\ DOMAIN photos = {1, 2}
    /\ photos[1].status = "approved"
    /\ photos[1].approved_at > photos[1].uploaded_at
    /\ photos[1].filename \in blobs
    /\ photos[2].status = "rejected"

SixteenMiB == 16 * 1024 * 1024

OversizeRequests == {r \in UploadRequests : r.clen > SixteenMiB}
ExactLimitRequests == {r \in UploadRequests : r.clen = SixteenMiB}

\* C20: an upload that declares more than 16 MiB is answered 413 too large,
\* whatever its other fields are, and writes no blob, creates no record and
\* starts no upload; one that declares exactly 16 MiB is not answered 413,
\* and with a good caption and file name goes on to the blob write.
C20_SizeLimit ==
    [][\A w \in Workers :
          /\ \A r \in OversizeRequests :
                UploadStart(w, r.clen, r.hasPhoto, r.caption, r.filename)
                => /\ response' = Response(413, "File too large. Maximum size is 16MB.")
                   /\ blobs' = blobs /\ photos' = photos /\ req' = req
          /\ \A r \in ExactLimitRequests :
                UploadStart(w, r.clen, r.hasPhoto, r.caption, r.filename)
                => /\ response'.code # 413
                   /\ (r.hasPhoto /\ ~Blank(r.caption)
                         /\ EndsInAllowedExtension(r.filename))
                      => req'[w].pc = "put"]_vars

\* an upload refused for its size
C20_Witness ==
    response = Response(413, "File too large. Maximum size is 16MB.")

====
